---- MODULE Spec2Model ----
(***************************************************************************)
(* Model of the Tribune news API (src/main.py) and of its RSS ingestor     *)
(* (src/rss_core.py).                                                      *)
(*                                                                         *)
(* Spec        the request coordinator: the two caches, the handlers       *)
(*             top_3_titles and see_more_details, and the enrichment runs  *)
(*             (generate_top_10_details), cut into the atomic segments the *)
(*             asyncio event loop executes between two awaits.             *)
(* SpecEnrich  one quick view of a three-item list and its enrichment,    *)
(*             with every outcome of the summarizer calls.                 *)
(* SpecIngest  one call of fetch_tribune_news over a bounded feed.         *)
(***************************************************************************)
EXTENDS Integers, Sequences, FiniteSets, TLC

VARIABLES
    now,            \* the wall clock read by time()                  (main.py:13)
    ticks,          \* how often the clock has advanced (bounds the model)
    nreq,           \* how many requests have been received (bounds the model)
    raw_cache,      \* dict key -> (raw_items, timestamp)             (main.py:32)
    details_cache,  \* dict key -> (details_list, timestamp)          (main.py:33)
    h,              \* one record per request handler slot
    run,            \* one record per generate_top_10_details coroutine
    hist,           \* history: the last completed enrichment run per key
    qstore,         \* history: per key, the earliest raw entry a quick view
                    \* stored that is not older than the TTL
    resp,           \* the response sent by the step just taken, if any
    last,           \* the enrichment run that returned in the step just taken, if any
    ing             \* the state of one ingestor call (SpecIngest)

vars == <<now, ticks, nreq, raw_cache, details_cache, h, run, hist, qstore, resp, last, ing>>

-----------------------------------------------------------------------------
(* Bounds of the model *)

NumProcs == 2       \* request handlers that can be in progress at once
MaxTasks == 1       \* background enrichment tasks alive at once
MaxTicks == 2       \* clock advances in one behaviour
MaxReqs == 3        \* requests received in one behaviour

(* Program constants *)

CACHE_TTL == 1800
SUMMARY_INPUT_CAP == 2000
BRIEF_CAP == 300
TOP_N == 3

Procs == 1..NumProcs
Tasks == (NumProcs + 1)..(NumProcs + MaxTasks)
Runs  == Procs \cup Tasks

\* The clock advances by one second, by the TTL or by one second less, so
\* that the ages TTL-1, TTL and TTL+1 are all reached.
TickSteps == {1, CACHE_TTL - 1, CACHE_TTL}

Min(a, b) == IF a < b THEN a ELSE b

-----------------------------------------------------------------------------
(* Strings.  A string is represented by the text it is a prefix of (id),   *)
(* the length of that prefix (len) and whether "..." was appended (ell).   *)
(* by/inlen tell a feed text from a summarizer answer and name the input   *)
(* the summarizer was given.                                               *)

FeedText(id, n) == [id |-> id, len |-> n, ell |-> FALSE, by |-> "feed", inlen |-> 0]

NoText == FeedText("", 0)

\* s[:n]
Take(s, n) == [s EXCEPT !.len = Min(s.len, n)]

\* len(s)
StrLen(s) == s.len + (IF s.ell THEN 3 ELSE 0)

\* a or b   (the empty string is falsy)
StrOr(a, b) == IF StrLen(a) > 0 THEN a ELSE b

-----------------------------------------------------------------------------
(* News items as fetch_tribune_news returns them (rss_core.py:83-94).      *)

NewsItem(t, fc, sm) ==
    [title |-> t, link |-> "link-" \o t, img |-> "img-" \o t, published |-> "pub-" \o t,
     summary |-> sm, full_content |-> fc]

ItemA == NewsItem("a", FeedText("fa", SUMMARY_INPUT_CAP + 1), FeedText("sa", 10))
ItemB == NewsItem("b", FeedText("fb", 0), FeedText("sb", BRIEF_CAP + 1))
ItemC == NewsItem("c", FeedText("fc", BRIEF_CAP), FeedText("sc", 0))

\* What one upstream fetch may deliver under Spec: nothing (no news, or a
\* degraded fetch), or one of two different top lists.
FetchResults == { <<>>, <<ItemA>>, <<ItemC>> }

\* The top list of SpecEnrich.
EnrichList == <<ItemA, ItemB, ItemC>>

\* The max_items every caller passes to fetch_top_items.
MAX_ITEMS == 10

TitleNames == <<"n1", "n2", "n3", "n4", "n5", "n6", "n7", "n8", "n9", "n10">>

\* A list of n items with different titles.
ListOfLen(n) ==
    [i \in 1..n |-> NewsItem(TitleNames[i], FeedText(TitleNames[i], 1), NoText)]

\* What fetch_top_items(..., max_items) may deliver under SpecTitles: lists
\* below, at and above three items, up to max_items (fetch_tribune_news
\* returns no more).
TitleLists(max_items) ==
    { ListOfLen(n) : n \in { x \in {0, 1, 2, 3, 4, MAX_ITEMS} : x <= max_items } }

\* get_cache_key: f"{region}_{query}_{days_back}"
get_cache_key(region, query, days_back) == <<region, query, days_back>>

Requests == { [region |-> "Sindh", query |-> "", days_back |-> 7] }

Keys == { get_cache_key(q.region, q.query, q.days_back) : q \in Requests }

\* Mutant of is_cache_valid: the entry is still fresh at the age of the TTL.
is_cache_valid_inclusive(timestamp, t) == t - timestamp <= CACHE_TTL

\* is_cache_valid(timestamp), with t the value time() returns
is_cache_valid(timestamp, t) == t - timestamp < CACHE_TTL


-----------------------------------------------------------------------------
(* HTTP outcomes of a handler *)

HTTP_OK == 200
HTTP_NOT_FOUND == 404
HTTP_ERROR == 500
HTTP_BAD_REQUEST == 400

\* raise HTTPException(status_code=status) inside the handler's try block:
\* HTTPException is a subclass of Exception, so the handler's own
\* `except Exception` clause catches it and raises HTTPException(500).
RaisedInTry(status) == HTTP_ERROR

-----------------------------------------------------------------------------
(* The summarizer and the assembly of one detail record                    *)

\* item['full_content'] or item['summary']
Content(item) == StrOr(item.full_content, item.summary)

\* the argument of summarizer.ainvoke
SummarizerInput(item) == Take(Content(item), SUMMARY_INPUT_CAP)

\* Lengths of the summarizer's answers: Spec has answers that are cut,
\* SpecEnrich also the longest answer that is not.
SummaryLens == {BRIEF_CAP + 1}
SummaryLensAll == {BRIEF_CAP, BRIEF_CAP + 1}

\* rank is history: the place of the call in the order of completion.
Pending == [st |-> "pending", text |-> NoText, rank |-> 0]
Failed  == [st |-> "fail", text |-> NoText, rank |-> 0]

\* What gather(..., return_exceptions=True) may hold for one item: an
\* exception, or the summary text the model answered with.
SummarizerOutcomes(item, lens) ==
    {Failed} \cup
    { [st |-> "ok",
       text |-> [id |-> SummarizerInput(item).id, len |-> n, ell |-> FALSE,
                 by |-> "llm", inlen |-> SummarizerInput(item).len],
       rank |-> 0] : n \in lens }

\* Mutant of brief_summary: a text of exactly 300 characters gets the "..." too.
brief_summary_at_cap(summary) ==
    IF StrLen(summary) >= BRIEF_CAP
    THEN [Take(summary, BRIEF_CAP) EXCEPT !.ell = TRUE]
    ELSE summary

\* str(summary)[:300] + "..." if len(str(summary)) > 300 else str(summary)
brief_summary(summary) ==
    IF StrLen(summary) > BRIEF_CAP
    THEN [Take(summary, BRIEF_CAP) EXCEPT !.ell = TRUE]
    ELSE summary

\* the fallback of a failed summarizer call
FallbackSummary(item) == Take(StrOr(item.full_content, item.summary), BRIEF_CAP)

\* The body of the loop over enumerate(raw_items)
NewsDetail(item, outcome) ==
    LET summary == IF outcome.st = "fail" THEN FallbackSummary(item) ELSE outcome.text
    IN  [title |-> item.title, link |-> item.link,
         brief_summary |-> brief_summary(summary),
         img |-> item.img, published |-> item.published]

\* Mutant of BuildDetails: record i is built from the i-th outcome in the
\* order of completion.
BuildDetailsAsCompleted(raw_items, out) ==
    [i \in 1..Len(raw_items) |->
        NewsDetail(raw_items[i], out[CHOOSE j \in 1..Len(out) : out[j].rank = i])]

BuildDetails(raw_items, out) ==
    [i \in 1..Len(raw_items) |-> NewsDetail(raw_items[i], out[i])]

-----------------------------------------------------------------------------
(* The ingestor: fetch_tribune_news (rss_core.py), cut at the HTTP GET and *)
(* at each iteration of the loop over the feed's items.                    *)
(*                                                                         *)
(* Times are counted in hours from the start of the model.  A datetime is  *)
(* a record: local is its wall-clock reading, off its UTC offset, so that  *)
(* the instant it denotes is local - off.                                  *)

MaxFeed == 3          \* items in the feed the GET delivers
MaxItemsArg == 2      \* largest max_items a call is made with

DAY == 24
PK_OFFSET == 5        \* pytz.timezone("Asia/Karachi")

\* The keys of rss_feeds
rss_feeds == {"Pakistan", "Punjab", "Sindh", "Balochistan", "Khyber Pakhtunkhwa",
              "Jammu & Kashmir", "Gilgit-Baltistan"}

\* The keys of rss_feeds in fetch_news_by_category
category_feeds == {"Politics", "Technology", "Sports", "Movies", "Music", "Health",
                   "Business", "World"}

Regions == {"Sindh", "Mars"}

Categories == {"Sports", "Sindh"}

\* The registry each of the two fetch functions looks its scope up in.
Registry(fn) == IF fn = "fetch_tribune_news" THEN rss_feeds ELSE category_feeds

\* Mutant of Known: the registry is not consulted.
KnownAnyScope(fn, scope) == TRUE

\* `region not in rss_feeds` / `category not in rss_feeds`, negated
Known(fn, scope) == scope \in Registry(fn)

Queries == {"", "Flood "}

\* query.lower().strip() if query else ""
query_lower(query) == IF query = "Flood " THEN "flood" ELSE ""

\* The pubDate of a feed item: the element is absent, is empty (its text is
\* None), holds a text parse_date rejects, or holds a date without or with
\* a UTC offset.
Absent     == [kind |-> "absent", local |-> 0, off |-> 0]
EmptyElem  == [kind |-> "empty", local |-> 0, off |-> 0]
Unparsable == [kind |-> "unparsable", local |-> 0, off |-> 0]
Naive(l)   == [kind |-> "naive", local |-> l, off |-> 0]
Aware(l, o) == [kind |-> "aware", local |-> l, off |-> o]

\* A feed item: words are the lower-cased words of its title, description
\* and content:encoded.
FeedEntry(t, d, w) == [title |-> t, pubDate |-> d, words |-> w]

FeedEntries ==
    { FeedEntry("t", Aware(4, PK_OFFSET), {"flood"}),
      FeedEntry("t", Aware(0, 0), {"flood"}),
      FeedEntry("u", Aware(4, PK_OFFSET), {"flood"}),
      FeedEntry("u", Aware(0, 0), {}),
      FeedEntry("t", Aware(PK_OFFSET - DAY - 1, PK_OFFSET), {"flood"}),
      FeedEntry("t", Aware(PK_OFFSET - DAY, PK_OFFSET), {"flood"}),
      FeedEntry("t", Absent, {"flood"}),
      FeedEntry("t", EmptyElem, {"flood"}),
      FeedEntry("t", Unparsable, {"flood"}),
      FeedEntry("t", Naive(4), {"flood"}) }

Feeds == UNION { [1..n -> FeedEntries] : n \in 0..MaxFeed }

\* datetime.now(pk_timezone) when the clock reads c
PkNow(c) == Aware(c + PK_OFFSET, PK_OFFSET)

\* d - timedelta(days=n)
MinusDays(d, n) == [d EXCEPT !.local = d.local - n * DAY]

\* The instant an aware datetime denotes.
Instant(d) == d.local - d.off

\* a < b on aware datetimes
DateLess(a, b) == Instant(a) < Instant(b)

\* d.isoformat(): "YYYY-MM-DDTHH:MM:SS+HH:MM", the local reading followed
\* by the sign and the magnitude of the offset.
isoformat(d) ==
    [date |-> d.local,
     sign |-> IF d.off >= 0 THEN "+" ELSE "-",
     hhmm |-> IF d.off >= 0 THEN d.off ELSE 0 - d.off]

\* The instant an ISO string denotes.
IsoInstant(s) == s.date - (IF s.sign = "+" THEN s.hhmm ELSE 0 - s.hhmm)

\* The order of the characters "+" and "-".
SignOrd(c) == IF c = "+" THEN 0 ELSE 1

\* a < b on ISO strings: character by character, so first by the local
\* reading (fixed width), then by the sign, then by the offset's digits.
StrLess(a, b) ==
    \/ a.date < b.date
    \/ a.date = b.date /\ SignOrd(a.sign) < SignOrd(b.sign)
    \/ a.date = b.date /\ a.sign = b.sign /\ a.hhmm < b.hhmm

\* The dict built for one surviving item; link stands for the item's
\* position in the feed.
news_item(e, i, pub_date) ==
    [title |-> e.title, link |-> i, published |-> isoformat(pub_date)]

\* Mutant of content_hash: the publish date is left out of the hash.
content_hash_title_only(title, published) == <<title>>

\* hashlib.md5(f"{title}{published}".encode()).hexdigest(): the hash is
\* taken as injective, and so is the concatenation, published being a
\* suffix of fixed format.
content_hash(title, published) == <<title, published>>

\* Mutant of Candidates: every item of the feed is examined.
CandidatesUncut(items, max_items) == items

\* items[:max_items * 2]
Candidates(items, max_items) == SubSeq(items, 1, Min(Len(items), max_items * 2))

\* The place of x in the descending list s: before the first element whose
\* key is smaller, so behind every element with an equal key.
InsertDesc(s, x) ==
    LET smaller == { j \in 1..Len(s) : StrLess(s[j].published, x.published) }
        at == IF smaller = {} THEN Len(s) + 1
              ELSE CHOOSE j \in smaller : \A k \in smaller : j <= k
    IN  SubSeq(s, 1, at - 1) \o <<x>> \o SubSeq(s, at, Len(s))

\* sorted(all_headlines, key=lambda x: x["published"], reverse=True): a
\* stable sort on the ISO strings.
RECURSIVE sorted_by_published(_)
sorted_by_published(s) ==
    IF s = <<>> THEN <<>>
    ELSE InsertDesc(sorted_by_published(SubSeq(s, 1, Len(s) - 1)), s[Len(s)])

\* pc: off | get (awaiting requests.get) | loop | sleep (the loop is over)
\* | returned | raised.  fn is the function called and region its scope
\* argument.  examined, passed, start and gets are history: the number of
\* loop iterations begun, the items that survived the recency and the
\* keyword filter, the clock reading the cutoff was computed from, and the
\* number of HTTP GETs issued.
IdleIngest ==
    [pc |-> "off", fn |-> "", gets |-> 0, region |-> "", query_lower |-> "", days_back |-> 0, max_items |-> 0,
     clock |-> 0, start |-> 0, cutoff_date |-> PkNow(0),
     feed |-> <<>>, items |-> <<>>, i |-> 0,
     all_headlines |-> <<>>, seen_hashes |-> {},
     examined |-> 0, passed |-> <<>>, slept |-> FALSE, err |-> "", result |-> <<>>]

\* Mutant of Degraded: the exception leaves the function.
Propagated(st, e) == [st EXCEPT !.pc = "raised", !.err = e]

\* The exceptions requests.get, raise_for_status and ET.fromstring raise:
\* the first three derive from requests.RequestException.
GetErrors == {"ConnectionError", "Timeout", "HTTPError", "ParseError"}

\* Any exception raised inside the try block is caught by one of the three
\* except clauses, each of which is `return []`.
Degraded(st, e) == [st EXCEPT !.pc = "returned", !.err = e, !.result = <<>>]

\* The end of one loop iteration that did not break.
NextEntry(st) ==
    IF st.i = Len(st.items) THEN [st EXCEPT !.pc = "sleep"] ELSE [st EXCEPT !.i = st.i + 1]

\* The loop body from the recency filter on, pub_date being aware.
AfterDate(st, e, pub_date) ==
    IF DateLess(pub_date, st.cutoff_date) THEN NextEntry(st)
    ELSE IF st.query_lower # "" /\ st.query_lower \notin e.words THEN NextEntry(st)
    ELSE
        LET item == news_item(e, st.i, pub_date)
            hash == content_hash(item.title, item.published)
            st1  == [st EXCEPT !.passed = Append(st.passed, item)]
        IN  IF hash \in st.seen_hashes THEN NextEntry(st1)
            ELSE LET st2 == [st1 EXCEPT !.seen_hashes = st.seen_hashes \cup {hash},
                                        !.all_headlines = Append(st.all_headlines, item)]
                 IN  IF Len(st2.all_headlines) >= st.max_items
                     THEN [st2 EXCEPT !.pc = "sleep"]
                     ELSE NextEntry(st2)

\* One iteration of the loop over items, the clock reading c.
LoopBody(st0, c) ==
    LET st == [st0 EXCEPT !.examined = st0.examined + 1, !.clock = c]
        e  == st.items[st.i]
        k  == e.pubDate.kind
    IN  IF k = "empty" THEN Degraded(st, "AttributeError")
        ELSE IF k = "naive" THEN Degraded(st, "TypeError")
        ELSE IF k = "aware" THEN AfterDate(st, e, e.pubDate)
        ELSE AfterDate(st, e, PkNow(c))

\* The head of either fetch function, up to the GET: the registry lookup
\* raising ValueError, else the cutoff and the lower-cased query.
BeginCall(fn, scope, query, days_back, max_items) ==
    IF ~ Known(fn, scope)
    THEN [ing EXCEPT !.pc = "raised", !.fn = fn, !.region = scope, !.err = "ValueError"]
    ELSE [ing EXCEPT !.pc = "get", !.fn = fn, !.region = scope,
                     !.query_lower = query_lower(query),
                     !.days_back = days_back, !.max_items = max_items,
                     !.start = ing.clock,
                     !.cutoff_date = MinusDays(PkNow(ing.clock), days_back)]

\* fetch_tribune_news is called.
IngestBegin(region, query, days_back, max_items) ==
    /\ ing.pc = "off"
    /\ ing' = BeginCall("fetch_tribune_news", region, query, days_back, max_items)
    /\ UNCHANGED <<now, ticks, nreq, raw_cache, details_cache, h, run, hist, qstore, resp, last>>

\* fetch_news_by_category is called.
IngestBeginCategory(category, query, days_back, max_items) ==
    /\ ing.pc = "off"
    /\ ing' = BeginCall("fetch_news_by_category", category, query, days_back, max_items)
    /\ UNCHANGED <<now, ticks, nreq, raw_cache, details_cache, h, run, hist, qstore, resp, last>>

\* requests.get, raise_for_status or ET.fromstring raises.
IngestGetFails(e) ==
    /\ ing.pc = "get"
    /\ ing' = Degraded([ing EXCEPT !.gets = ing.gets + 1], e)
    /\ UNCHANGED <<now, ticks, nreq, raw_cache, details_cache, h, run, hist, qstore, resp, last>>

\* The GET delivers a feed that parses.
IngestGetOk(feed) ==
    /\ ing.pc = "get"
    /\ LET items == Candidates(feed, ing.max_items)
       IN  ing' = [ing EXCEPT !.pc = IF items = <<>> THEN "sleep" ELSE "loop",
                              !.gets = ing.gets + 1,
                              !.feed = feed, !.items = items, !.i = 1]
    /\ UNCHANGED <<now, ticks, nreq, raw_cache, details_cache, h, run, hist, qstore, resp, last>>

\* One iteration of the loop.  The clock moves on only where the iteration
\* reads it: for an item whose pubDate is absent or rejected by parse_date.
IngestEntry(adv) ==
    /\ ing.pc = "loop"
    /\ adv = 0 \/ ing.items[ing.i].pubDate.kind \in {"absent", "unparsable"}
    /\ ing' = LoopBody(ing, ing.clock + adv)
    /\ UNCHANGED <<now, ticks, nreq, raw_cache, details_cache, h, run, hist, qstore, resp, last>>

\* time.sleep(1), then `return sorted(...)`.
IngestReturn ==
    /\ ing.pc = "sleep"
    /\ ing' = [ing EXCEPT !.pc = "returned", !.slept = TRUE,
                          !.result = sorted_by_published(ing.all_headlines)]
    /\ UNCHANGED <<now, ticks, nreq, raw_cache, details_cache, h, run, hist, qstore, resp, last>>

-----------------------------------------------------------------------------
(* Records of the coordinator                                              *)

NoKey == <<"", "", 0>>

NoPrev == [any |-> FALSE, calls |-> 0, wrote |-> FALSE]

\* pc: free | start (task created, not yet run) | fetch (awaiting
\* fetch_top_items) | gather (awaiting asyncio.gather) | done.  inval and
\* blind are history: the raw entry whose list the run is summarizing has
\* been deleted as stale; the run stored its fetched list over a raw entry
\* that was present.
FreeRun ==
    [pc |-> "free", key |-> NoKey, raw_items |-> <<>>, out |-> <<>>,
     fetched |-> FALSE, calls |-> 0, wrote |-> FALSE, inval |-> FALSE,
     blind |-> FALSE, prev |-> NoPrev]

\* pc: idle | fetch (top_3_titles awaiting fetch_top_items) | await
\* (see_more_details awaiting generate_top_10_details) | done (answered:
\* the record moves to resp and the slot is idle again).  stored tells
\* whether the quick view has written raw_cache[key], blind whether an
\* entry was present when it did.
IdleHandler ==
    [op |-> "none", key |-> NoKey, pc |-> "idle", status |-> 0, cause |-> "",
     body |-> <<>>, total |-> 0, at |-> 0, fetched |-> FALSE, stored |-> FALSE,
     blind |-> FALSE, branch |-> "",
     rawAge |-> -1, detAge |-> -1, seen |-> <<>>]

Entry(value, t) == [items |-> value, ts |-> t]

\* del d[k]
Del(d, k) == [x \in DOMAIN d \ {k} |-> d[x]]

\* d[k] = v
Put(d, k, v) == [x \in DOMAIN d \cup {k} |-> IF x = k THEN v ELSE d[x]]

Titles(items) == [i \in 1..Len(items) |-> items[i].title]

\* Mutant of FirstN: the list is not cut.
FirstNUncut(items, n) == items

\* cached_items[:3]
FirstN(items, n) == SubSeq(items, 1, Min(Len(items), n))

\* {}
EmptyDict == [x \in {} |-> Entry(<<>>, 0)]

Init ==
    /\ now = 0
    /\ ticks = 0
    /\ nreq = 0
    /\ raw_cache = EmptyDict
    /\ details_cache = EmptyDict
    /\ h = [p \in Procs |-> IdleHandler]
    /\ run = [r \in Runs |-> FreeRun]
    /\ hist = [k \in Keys |-> NoPrev]
    /\ qstore = EmptyDict
    /\ resp = IdleHandler
    /\ last = FreeRun
    /\ ing = IdleIngest


-----------------------------------------------------------------------------
(* generate_top_10_details, cut at its awaits                              *)

\* The loop issuing one summarizer.ainvoke per raw item, up to the await
\* of asyncio.gather.
FanOut(rec, raw_items) ==
    [rec EXCEPT !.pc = "gather", !.raw_items = raw_items,
                !.out = [i \in 1..Len(raw_items) |-> Pending],
                !.calls = Len(raw_items)]

\* `if not raw_items: return`, else the fan-out
AfterRaw(rec, raw_items) ==
    IF raw_items = <<>> THEN [rec EXCEPT !.pc = "done"] ELSE FanOut(rec, raw_items)

\* Mutant of GenBegin: the `if key in details_cache: return` is missing.
GenBeginUnguarded(k, t) ==
    LET rec == [FreeRun EXCEPT !.key = k, !.prev = hist[k]]
    IN  IF k \notin DOMAIN raw_cache
        THEN [rec EXCEPT !.pc = "fetch", !.fetched = TRUE]
        ELSE IF ~ is_cache_valid(raw_cache[k].ts, t)
        THEN [rec EXCEPT !.pc = "fetch", !.fetched = TRUE]
        ELSE AfterRaw(rec, raw_cache[k].items)

\* The first segment of generate_top_10_details(key), run with the clock
\* reading t: from the call to the first await, or to the return.
GenBegin(k, t) ==
    LET rec == [FreeRun EXCEPT !.key = k, !.prev = hist[k]]
    IN  IF k \in DOMAIN details_cache
        THEN [rec EXCEPT !.pc = "done"]
        ELSE IF k \notin DOMAIN raw_cache
        THEN [rec EXCEPT !.pc = "fetch", !.fetched = TRUE]
        ELSE IF ~ is_cache_valid(raw_cache[k].ts, t)
        THEN [rec EXCEPT !.pc = "fetch", !.fetched = TRUE]
        ELSE AfterRaw(rec, raw_cache[k].items)

\* The run table once run r has reached rec: a coroutine that has returned
\* is gone.
RunTable(r, rec) == [run EXCEPT ![r] = IF rec.pc = "done" THEN FreeRun ELSE rec]

\* History: what the enrichment run that has just returned did.
Completed(rec) ==
    IF rec.pc = "done"
    THEN [hist EXCEPT ![rec.key] = [any |-> TRUE, calls |-> rec.calls, wrote |-> rec.wrote]]
    ELSE hist

LastAfter(rec) == IF rec.pc = "done" THEN rec ELSE FreeRun

\* asyncio.create_task(generate_top_10_details(...)): the task exists but
\* has not run yet.
FreeTasks == { r \in Tasks : run[r].pc = "free" }

NewTask == CHOOSE r \in FreeTasks : \A x \in FreeTasks : r <= x

create_task(k) == [run EXCEPT ![NewTask] = [FreeRun EXCEPT !.pc = "start", !.key = k]]

\* The rest of see_more_details once the awaited generate_top_10_details
\* has returned: `if key in details_cache: return ...`, else the 404.
MoreAfterGenerate(req, details) ==
    IF req.key \in DOMAIN details
    THEN [req EXCEPT !.pc = "done", !.status = HTTP_OK,
                     !.body = details[req.key].items,
                     !.total = Len(details[req.key].items)]
    ELSE [req EXCEPT !.pc = "done", !.status = RaisedInTry(HTTP_NOT_FOUND),
                     !.cause = "no_prior"]

\* A background task runs its first segment.
TaskStart(r) ==
    /\ r \in Tasks
    /\ run[r].pc = "start"
    /\ LET rec == GenBegin(run[r].key, now)
       IN  /\ run' = RunTable(r, rec)
           /\ hist' = Completed(rec)
           /\ last' = LastAfter(rec)
    /\ resp' = IdleHandler
    /\ UNCHANGED <<now, ticks, nreq, raw_cache, details_cache, h, qstore, ing>>

\* Run r has reached rec: when r is the run a see_more_details handler
\* awaits and it has returned, the handler finishes in the same segment.
AwaitingHandler(r, rec, details) ==
    IF r \in Procs /\ rec.pc = "done"
    THEN /\ h' = [h EXCEPT ![r] = IdleHandler]
         /\ resp' = MoreAfterGenerate([h[r] EXCEPT !.fetched = rec.fetched], details)
    ELSE /\ h' = h
         /\ resp' = IdleHandler

\* fetch_top_items returns raw_items: `raw_cache[key] = (raw_items, time())`
\* and on to the fan-out.
EnrichFetched(r, raw_items) ==
    /\ run[r].pc = "fetch"
    /\ raw_cache' = Put(raw_cache, run[r].key, Entry(raw_items, now))
    /\ LET rec == AfterRaw([run[r] EXCEPT !.blind = run[r].key \in DOMAIN raw_cache],
                           raw_items)
       IN  /\ run' = RunTable(r, rec)
           /\ hist' = Completed(rec)
           /\ last' = LastAfter(rec)
           /\ AwaitingHandler(r, rec, details_cache)
    /\ UNCHANGED <<now, ticks, nreq, details_cache, qstore, ing>>

\* One summarizer.ainvoke of run r completes, with a summary or an exception.
SummarizerReturns(r, i, outcome) ==
    /\ run[r].pc = "gather"
    /\ i \in 1..Len(run[r].out)
    /\ run[r].out[i] = Pending
    /\ outcome \in SummarizerOutcomes(run[r].raw_items[i], SummaryLensAll)
    /\ LET done == { j \in 1..Len(run[r].out) : run[r].out[j] # Pending }
       IN  run' = [run EXCEPT ![r].out[i] = [outcome EXCEPT !.rank = Cardinality(done) + 1]]
    /\ resp' = IdleHandler
    /\ last' = FreeRun
    /\ UNCHANGED <<now, ticks, nreq, raw_cache, details_cache, h, hist, qstore, ing>>

\* Mutant of EnrichGathered: the details are assembled without waiting for
\* every summarizer call.
EnrichGatheredEarly(r) ==
    /\ run[r].pc = "gather"
    /\ details_cache' = Put(details_cache, run[r].key,
                            Entry(BuildDetails(run[r].raw_items, run[r].out), now))
    /\ LET rec == [run[r] EXCEPT !.pc = "done", !.wrote = TRUE]
       IN  /\ run' = RunTable(r, rec)
           /\ hist' = Completed(rec)
           /\ last' = LastAfter(rec)
           /\ AwaitingHandler(r, rec, details_cache')
    /\ UNCHANGED <<now, ticks, nreq, raw_cache, qstore, ing>>

\* Mutant of EnrichGathered: gather without return_exceptions, so that one
\* failed call ends the run in the except clause with nothing written.
EnrichGatheredAborting(r) ==
    /\ run[r].pc = "gather"
    /\ \A i \in 1..Len(run[r].out) : run[r].out[i] # Pending
    /\ LET failed == \E i \in 1..Len(run[r].out) : run[r].out[i].st = "fail"
           rec == [run[r] EXCEPT !.pc = "done", !.wrote = ~ failed]
       IN  /\ details_cache' =
                 IF failed THEN details_cache
                 ELSE Put(details_cache, run[r].key,
                          Entry(BuildDetails(run[r].raw_items, run[r].out), now))
           /\ run' = RunTable(r, rec)
           /\ hist' = Completed(rec)
           /\ last' = LastAfter(rec)
           /\ AwaitingHandler(r, rec, details_cache')
    /\ UNCHANGED <<now, ticks, nreq, raw_cache, qstore, ing>>

\* asyncio.gather returns: the details are assembled and stored,
\* `details_cache[key] = (details, time())`.
EnrichGathered(r) ==
    /\ run[r].pc = "gather"
    /\ \A i \in 1..Len(run[r].out) : run[r].out[i] # Pending
    /\ details_cache' = Put(details_cache, run[r].key,
                            Entry(BuildDetails(run[r].raw_items, run[r].out), now))
    /\ LET rec == [run[r] EXCEPT !.pc = "done", !.wrote = TRUE]
       IN  /\ run' = RunTable(r, rec)
           /\ hist' = Completed(rec)
           /\ last' = LastAfter(rec)
           /\ AwaitingHandler(r, rec, details_cache')
    /\ UNCHANGED <<now, ticks, nreq, raw_cache, qstore, ing>>

-----------------------------------------------------------------------------
(* The request handlers                                                    *)

KeyOf(q) == get_cache_key(q.region, q.query, q.days_back)

\* The age of the entry of k in cache d, -1 when there is none.
AgeIn(d, k) == IF k \in DOMAIN d THEN now - d[k].ts ELSE -1

\* A handler slot takes a new request for key k: the history fields record
\* when the call began (at), how old the entries of k were then (rawAge,
\* detAge) and the raw entry a quick view had stored before (seen).
StartReq(op, k) ==
    [IdleHandler EXCEPT !.op = op, !.key = k, !.at = now,
                        !.rawAge = AgeIn(raw_cache, k),
                        !.detAge = AgeIn(details_cache, k),
                        !.seen = IF k \in DOMAIN qstore THEN <<qstore[k]>> ELSE <<>>]

\* A new request is served in the lowest idle slot.
CanStart(p) ==
    /\ h[p].pc = "idle"
    /\ \A x \in Procs : h[x].pc = "idle" => p <= x
    /\ nreq < MaxReqs
    /\ nreq' = nreq + 1

\* `if key not in details_cache: asyncio.create_task(...)`
StartBackground(k) ==
    IF k \notin DOMAIN details_cache THEN create_task(k) ELSE run

\* top_3_titles, raw entry present and fresh: answered from the cache.
Top3Hit(p, q) ==
    LET k == KeyOf(q) IN
    /\ CanStart(p)
    /\ k \in DOMAIN raw_cache
    /\ is_cache_valid(raw_cache[k].ts, now)
    /\ k \notin DOMAIN details_cache => FreeTasks # {}
    /\ LET cached_items == raw_cache[k].items
       IN  resp' = [StartReq("top3", k) EXCEPT
                       !.pc = "done", !.status = HTTP_OK, !.branch = "cached",
                       !.body = Titles(FirstN(cached_items, TOP_N)),
                       !.total = Len(cached_items)]
    /\ run' = StartBackground(k)
    /\ last' = FreeRun
    /\ UNCHANGED <<now, ticks, raw_cache, details_cache, h, hist, qstore, ing>>

\* top_3_titles, raw entry absent or stale: a stale entry is deleted
\* together with the details entry, then fetch_top_items is awaited.
Top3Miss(p, q) ==
    LET k == KeyOf(q)
        stale == k \in DOMAIN raw_cache
    IN
    /\ CanStart(p)
    /\ ~ (k \in DOMAIN raw_cache /\ is_cache_valid(raw_cache[k].ts, now))
    /\ raw_cache' = IF stale THEN Del(raw_cache, k) ELSE raw_cache
    /\ details_cache' = IF stale THEN Del(details_cache, k) ELSE details_cache
    /\ hist' = IF stale THEN [hist EXCEPT ![k] = NoPrev] ELSE hist
    /\ run' = [r \in Runs |->
                 IF stale /\ run[r].key = k
                 THEN [run[r] EXCEPT
                          !.prev = NoPrev,
                          !.inval = run[r].inval \/
                                    (run[r].pc = "gather"
                                       /\ run[r].raw_items = raw_cache[k].items)]
                 ELSE run[r]]
    /\ h' = [h EXCEPT ![p] =
                [StartReq("top3", k) EXCEPT !.pc = "fetch", !.fetched = TRUE,
                                            !.branch = "fetched"]]
    /\ resp' = IdleHandler
    /\ last' = FreeRun
    /\ UNCHANGED <<now, ticks, qstore, ing>>

\* fetch_top_items returns full_items to top_3_titles.
Top3Fetched(p, full_items) ==
    LET k == h[p].key IN
    /\ h[p].op = "top3"
    /\ h[p].pc = "fetch"
    /\ h' = [h EXCEPT ![p] = IdleHandler]
    /\ IF full_items = <<>>
       THEN /\ resp' = [h[p] EXCEPT !.pc = "done",
                                    !.status = RaisedInTry(HTTP_NOT_FOUND),
                                    !.cause = "no_data"]
            /\ UNCHANGED <<raw_cache, run, qstore>>
       ELSE /\ k \notin DOMAIN details_cache => FreeTasks # {}
            /\ raw_cache' = Put(raw_cache, k, Entry(full_items, now))
            /\ qstore' = IF k \in DOMAIN qstore /\ now < qstore[k].ts + CACHE_TTL
                          THEN qstore
                          ELSE Put(qstore, k, Entry(Titles(FirstN(full_items, TOP_N)), now))
            /\ run' = StartBackground(k)
            /\ resp' = [h[p] EXCEPT !.pc = "done", !.status = HTTP_OK,
                                    !.stored = TRUE,
                                    !.blind = k \in DOMAIN raw_cache,
                                    !.body = Titles(FirstN(full_items, TOP_N)),
                                    !.total = Len(full_items)]
    /\ last' = FreeRun
    /\ UNCHANGED <<now, ticks, nreq, details_cache, hist, ing>>

\* see_more_details, details entry present and fresh.
SeeMoreCached(p, q) ==
    LET k == KeyOf(q) IN
    /\ CanStart(p)
    /\ k \in DOMAIN details_cache
    /\ is_cache_valid(details_cache[k].ts, now)
    /\ resp' = [StartReq("more", k) EXCEPT
                    !.pc = "done", !.status = HTTP_OK, !.branch = "details",
                    !.body = details_cache[k].items,
                    !.total = Len(details_cache[k].items)]
    /\ last' = FreeRun
    /\ UNCHANGED <<now, ticks, raw_cache, details_cache, h, run, hist, qstore, ing>>

\* The values a later time() of the same segment may return: the same
\* second or the next one.
ClockReads == {now} \cup (IF ticks < MaxTicks THEN {now + 1} ELSE {})

\* see_more_details, no fresh details entry but a fresh raw entry:
\* generate_top_10_details is awaited.  It runs in the handler's own
\* task, so no other coroutine runs between the handler's freshness
\* check and the one in generate_top_10_details; the clock is read
\* again there and returns t2.
SeeMoreGenerate(p, q, t2) ==
    LET k == KeyOf(q) IN
    /\ CanStart(p)
    /\ ~ (k \in DOMAIN details_cache /\ is_cache_valid(details_cache[k].ts, now))
    /\ k \in DOMAIN raw_cache
    /\ is_cache_valid(raw_cache[k].ts, now)
    /\ t2 \in ClockReads
    /\ now' = t2
    /\ ticks' = IF t2 > now THEN ticks + 1 ELSE ticks
    /\ LET rec == GenBegin(k, t2)
           req == [StartReq("more", k) EXCEPT !.branch = "generate",
                                              !.fetched = rec.fetched]
       IN  /\ run' = RunTable(p, rec)
           /\ hist' = Completed(rec)
           /\ last' = LastAfter(rec)
           /\ IF rec.pc = "done"
              THEN /\ resp' = MoreAfterGenerate(req, details_cache)
                   /\ UNCHANGED h
              ELSE /\ h' = [h EXCEPT ![p] = [req EXCEPT !.pc = "await"]]
                   /\ resp' = IdleHandler
    /\ UNCHANGED <<raw_cache, details_cache, qstore, ing>>

\* see_more_details, neither a fresh details entry nor a fresh raw entry:
\* raise HTTPException(404, "... Call /top_3_titles first.").
SeeMoreNoPrior(p, q) ==
    LET k == KeyOf(q) IN
    /\ CanStart(p)
    /\ ~ (k \in DOMAIN details_cache /\ is_cache_valid(details_cache[k].ts, now))
    /\ ~ (k \in DOMAIN raw_cache /\ is_cache_valid(raw_cache[k].ts, now))
    /\ resp' = [StartReq("more", k) EXCEPT
                    !.pc = "done", !.status = RaisedInTry(HTTP_NOT_FOUND),
                    !.cause = "no_prior", !.branch = "none"]
    /\ last' = FreeRun
    /\ UNCHANGED <<now, ticks, raw_cache, details_cache, h, run, hist, qstore, ing>>

\* Time passes.
Tick(d) ==
    /\ ticks < MaxTicks
    /\ now' = now + d
    /\ ticks' = ticks + 1
    /\ resp' = IdleHandler
    /\ last' = FreeRun
    /\ UNCHANGED <<nreq, raw_cache, details_cache, h, run, hist, qstore, ing>>

Next ==
    \/ \E p \in Procs, q \in Requests : Top3Hit(p, q)
    \/ \E p \in Procs, q \in Requests : Top3Miss(p, q)
    \/ \E p \in Procs, items \in FetchResults : Top3Fetched(p, items)
    \/ \E p \in Procs, q \in Requests : SeeMoreCached(p, q)
    \/ \E p \in Procs, q \in Requests : \E t2 \in ClockReads : SeeMoreGenerate(p, q, t2)
    \/ \E p \in Procs, q \in Requests : SeeMoreNoPrior(p, q)
    \/ \E r \in Tasks : TaskStart(r)
    \/ \E r \in Runs, items \in FetchResults : EnrichFetched(r, items)
    \/ \E r \in Runs : \E i \in 1..Len(run[r].out) :
          \E o \in SummarizerOutcomes(run[r].raw_items[i], SummaryLens) :
             SummarizerReturns(r, i, o)
    \/ \E r \in Runs : EnrichGathered(r)
    \/ \E d \in TickSteps : Tick(d)

Spec == Init /\ [][Next]_vars


\* One quick view of a three-item list and the enrichment it starts, with
\* every outcome and every completion order of the summarizer calls, and
\* the detail views that read the result.
NextEnrich ==
    \/ \E q \in Requests : Top3Miss(1, q)
    \/ Top3Fetched(1, EnrichList)
    \/ \E r \in Tasks : TaskStart(r)
    \/ \E r \in Runs : \E i \in 1..Len(run[r].out) :
          \E o \in SummarizerOutcomes(run[r].raw_items[i], SummaryLensAll) :
             SummarizerReturns(r, i, o)
    \/ \E r \in Runs : EnrichGathered(r)
    \/ \E q \in Requests : SeeMoreCached(1, q)
    \/ \E q \in Requests : SeeMoreGenerate(1, q, now)

SpecEnrich == Init /\ [][NextEnrich]_vars


\* Quick views over lists of up to ten items.  The enrichment each one
\* starts runs with failing summarizer calls that complete in list order:
\* its outcomes and completion orders are those of SpecEnrich.
NextTitles ==
    \/ \E q \in Requests : Top3Miss(1, q)
    \/ \E items \in TitleLists(MAX_ITEMS) : Top3Fetched(1, items)
    \/ \E q \in Requests : Top3Hit(1, q)
    \/ \E r \in Tasks : TaskStart(r)
    \/ \E r \in Tasks : \E i \in 1..Len(run[r].out) :
          /\ \A j \in 1..(i - 1) : run[r].out[j] # Pending
          /\ SummarizerReturns(r, i, Failed)
    \/ \E r \in Tasks : EnrichGathered(r)
    \/ \E d \in TickSteps : Tick(d)

SpecTitles == Init /\ [][NextTitles]_vars

NextIngest ==
    \/ \E region \in Regions, query \in Queries, max_items \in 1..MaxItemsArg :
          IngestBegin(region, query, 1, max_items)
    \/ \E category \in Categories, query \in Queries, max_items \in 1..MaxItemsArg :
          IngestBeginCategory(category, query, 1, max_items)
    \/ \E e \in GetErrors : IngestGetFails(e)
    \/ ing.pc = "get" /\ \E feed \in Feeds : IngestGetOk(feed)
    \/ \E adv \in {0, 1} : IngestEntry(adv)
    \/ IngestReturn

SpecIngest == Init /\ [][NextIngest]_vars


\* The lists fetch_top_items returns in SpecLive: none, or two items.
LiveResults == { <<>>, <<ItemA, ItemB>> }

\* Quick views of one key, the background runs they start and the runs a
\* detail view awaits, over an empty and a two-item list, with the clock
\* moving by a whole TTL so that a run meets a stale raw entry and fetches.
NextLive ==
    \/ \E q \in Requests : Top3Miss(1, q)
    \/ \E items \in LiveResults : Top3Fetched(1, items)
    \/ \E q \in Requests : Top3Hit(1, q)
    \/ \E r \in Tasks : TaskStart(r)
    \/ \E r \in Runs, items \in LiveResults : EnrichFetched(r, items)
    \/ \E r \in Runs : \E i \in 1..Len(run[r].out) :
          \E o \in SummarizerOutcomes(run[r].raw_items[i], SummaryLens) :
             SummarizerReturns(r, i, o)
    \/ \E r \in Runs : EnrichGathered(r)
    \/ \E q \in Requests : \E t2 \in ClockReads : SeeMoreGenerate(1, q, t2)
    \/ Tick(CACHE_TTL)

\* What the event loop and the awaited services provide to run r: a created
\* task is run, the awaited fetch_top_items returns, every summarizer call
\* completes with a summary or an exception, and the coroutine is resumed
\* once gather is done.  Each of these stays enabled until it is taken.
RunProgress(r) ==
    /\ WF_vars(TaskStart(r))
    /\ WF_vars(\E items \in LiveResults : EnrichFetched(r, items))
    /\ WF_vars(\E i \in 1..Len(run[r].out) :
                  \E o \in SummarizerOutcomes(run[r].raw_items[i], SummaryLens) :
                     SummarizerReturns(r, i, o))
    /\ WF_vars(EnrichGathered(r))

SpecLive == Init /\ [][NextLive]_vars /\ \A r \in Runs : RunProgress(r)

-----------------------------------------------------------------------------
(* category_news                                                           *)

MaxCategoryFeed == 1      \* items in the feed a category_news call is served

\* The feeds a category_news call meets.
CategoryFeeds == UNION { [1..n -> FeedEntries] : n \in 0..MaxCategoryFeed }

\* CategoryNewsItem(title=..., link=..., published=item.get('published'))
CategoryNewsItem(item) ==
    [title |-> item.title, link |-> item.link, published |-> item.published]

\* The end of category_news once fetch_news_by_category has left the
\* thread in state st: ValueError gives the 400, the empty list the 404
\* raised inside the try block, a list the response built from it.
CategoryNewsResponse(req, st) ==
    IF st.pc = "raised"
    THEN [req EXCEPT !.pc = "done", !.cause = st.err,
                     !.status = IF st.err = "ValueError" THEN HTTP_BAD_REQUEST
                                ELSE HTTP_ERROR]
    ELSE IF st.result = <<>>
    THEN [req EXCEPT !.pc = "done", !.status = RaisedInTry(HTTP_NOT_FOUND),
                     !.cause = "no_data"]
    ELSE [req EXCEPT !.pc = "done", !.status = HTTP_OK,
                     !.body = [i \in 1..Len(st.result) |-> CategoryNewsItem(st.result[i])],
                     !.total = Len(st.result)]

\* category_news is called: the Category enum admits the registered
\* categories only.  fetch_news_by_category starts in a worker thread
\* (asyncio.to_thread) and the handler awaits it.
CategoryNews(p, category, query, days_back, max_items) ==
    /\ CanStart(p)
    /\ category \in category_feeds
    /\ ing.pc = "off"
    /\ h' = [h EXCEPT ![p] = [IdleHandler EXCEPT !.op = "category", !.pc = "thread",
                                                 !.at = now, !.fetched = TRUE]]
    /\ ing' = BeginCall("fetch_news_by_category", category, query, days_back, max_items)
    /\ resp' = IdleHandler
    /\ last' = FreeRun
    /\ UNCHANGED <<now, ticks, raw_cache, details_cache, run, hist, qstore>>

\* Mutant of CategoryNewsReturns: the fetched list is stored as the raw
\* entry of the call's fingerprint.
CategoryNewsReturnsStoring(p) ==
    /\ h[p].op = "category"
    /\ h[p].pc = "thread"
    /\ ing.pc \in {"returned", "raised"}
    /\ resp' = CategoryNewsResponse(h[p], ing)
    /\ h' = [h EXCEPT ![p] = IdleHandler]
    /\ ing' = IdleIngest
    /\ last' = FreeRun
    /\ raw_cache' = Put(raw_cache, get_cache_key(ing.region, ing.query_lower, ing.days_back),
                        Entry(ing.result, now))
    /\ UNCHANGED <<now, ticks, nreq, details_cache, run, hist, qstore>>

\* The worker thread has finished: category_news answers.
CategoryNewsReturns(p) ==
    /\ h[p].op = "category"
    /\ h[p].pc = "thread"
    /\ ing.pc \in {"returned", "raised"}
    /\ resp' = CategoryNewsResponse(h[p], ing)
    /\ h' = [h EXCEPT ![p] = IdleHandler]
    /\ ing' = IdleIngest
    /\ last' = FreeRun
    /\ UNCHANGED <<now, ticks, nreq, raw_cache, details_cache, run, hist, qstore>>

\* Category calls next to quick views of a one-item list and the
\* enrichment they start; the worker thread's steps interleave with the
\* coroutines.
NextCategory ==
    \/ \E p \in Procs, category \in Categories, query \in Queries :
          CategoryNews(p, category, query, 1, MaxItemsArg)
    \/ \E e \in GetErrors : IngestGetFails(e)
    \/ ing.pc = "get" /\ \E feed \in CategoryFeeds : IngestGetOk(feed)
    \/ \E adv \in {0, 1} : IngestEntry(adv)
    \/ IngestReturn
    \/ \E p \in Procs : CategoryNewsReturns(p)
    \/ \E p \in Procs, q \in Requests : Top3Miss(p, q)
    \/ \E p \in Procs : Top3Fetched(p, <<ItemA>>)
    \/ \E r \in Tasks : TaskStart(r)
    \/ \E r \in Tasks : SummarizerReturns(r, 1, Failed)
    \/ \E r \in Tasks : EnrichGathered(r)

SpecCategory == Init /\ [][NextCategory]_vars

-----------------------------------------------------------------------------
(* The claims                                                              *)

\* An enrichment run that did nothing: no fetch, no summarizer call, no
\* cache write.
NoOp(rec) == ~ rec.fetched /\ rec.calls = 0 /\ ~ rec.wrote

\* C1 as stated: of two calls of generate_top_10_details for one key, the
\* second beginning after the first has returned and with no invalidation
\* of the key in between, at most one issues summarizer calls, and the
\* second call is a no-op.
SecondCallNoOp(rec) ==
    rec.prev.any => (rec.prev.calls > 0 => rec.calls = 0) /\ NoOp(rec)

C1_SecondCallNoOp ==
    /\ \A r \in Runs : SecondCallNoOp(run[r])
    /\ SecondCallNoOp(last)

\* C1 amended: at most one of the two calls issues summarizer calls, and
\* the second call is a no-op when the first one has stored a details entry.
AtMostOnce(rec) ==
    /\ rec.prev.calls > 0 => rec.calls = 0
    /\ rec.prev.wrote => NoOp(rec)

C1_AtMostOnce ==
    /\ \A r \in Runs : AtMostOnce(run[r])
    /\ AtMostOnce(last)

\* A second call has just returned as a no-op after a first call that
\* summarized and stored the details.
C1_Witness ==
    /\ last.pc = "done"
    /\ last.prev.wrote
    /\ last.prev.calls > 0
    /\ NoOp(last)

\* C2: a quick view that begins after a quick view has stored a raw entry
\* at t0, and before t0 + 1800 s, returns the titles of that entry and
\* issues no fetch.
C2_SameTitles ==
    (resp.op = "top3" /\ resp.pc = "done" /\ resp.seen # <<>>
        /\ resp.at < resp.seen[1].ts + CACHE_TTL)
    => (resp.status = HTTP_OK /\ resp.body = resp.seen[1].items /\ ~ resp.fetched)

\* C3: a detail view for a key with neither a raw entry nor a details entry
\* fails with the 404 "call /top_3_titles first" and leaves both caches
\* without an entry for the key.
C3_NoPriorFetchError ==
    (resp.op = "more" /\ resp.pc = "done" /\ resp.rawAge < 0 /\ resp.detAge < 0)
    => /\ resp.status = HTTP_NOT_FOUND
       /\ resp.cause = "no_prior"
       /\ resp.key \notin DOMAIN raw_cache
       /\ resp.key \notin DOMAIN details_cache

\* C4: no detail view, the enrichment it awaits included, issues an
\* upstream fetch.
C4_DetailViewNeverFetches ==
    /\ \A p \in Procs : h[p].op = "more" => ~ h[p].fetched /\ run[p].pc # "fetch"
    /\ resp.op = "more" => ~ resp.fetched

\* The first 300 characters of the item's own content: full_content when
\* it is not empty, else summary.
OwnContent300(item) ==
    LET c == IF item.full_content.len > 0 THEN item.full_content ELSE item.summary
    IN  [id |-> c.id, len |-> Min(c.len, 300), ell |-> FALSE, by |-> "feed", inlen |-> 0]

\* The summarizer failed for item i of rec and succeeded for all others.
OnlyFailure(rec, i) ==
    /\ rec.out[i].st = "fail"
    /\ \A j \in 1..Len(rec.out) : j # i => rec.out[j].st = "ok"

\* C5: when the summarizer fails for item i only, the details list written
\* has one record per raw item and record i's brief_summary is the first
\* 300 characters of item i's own content, without "...".
C5_PartialFailure ==
    last.wrote =>
        LET d == details_cache[last.key].items
        IN  \A i \in 1..Len(last.raw_items) :
                OnlyFailure(last, i) =>
                    /\ Len(d) = Len(last.raw_items)
                    /\ d[i].brief_summary = OwnContent300(last.raw_items[i])

\* An enrichment run of three items has just stored its details, the
\* summarizer having failed for the second item only.
C5_Witness ==
    /\ last.wrote
    /\ Len(last.raw_items) = 3
    /\ OnlyFailure(last, 2)
    /\ last.key \in DOMAIN details_cache

\* C6: a handler treats the entry it finds as fresh iff its age is below
\* 1800 s: fresh at 1799 s, stale at 1800 s and at 1801 s, the raw entry in
\* the quick view and the details entry in the detail view alike.
FreshnessOf(x) ==
    /\ x.op = "top3" =>
         /\ x.branch = "cached" <=> (x.rawAge >= 0 /\ x.rawAge < 1800)
         /\ x.rawAge = 1799 => x.branch = "cached"
         /\ x.rawAge \in {1800, 1801} => x.branch = "fetched"
    /\ x.op = "more" =>
         /\ x.branch = "details" <=> (x.detAge >= 0 /\ x.detAge < 1800)
         /\ x.detAge = 1799 => x.branch = "details"
         /\ x.detAge \in {1800, 1801} => x.branch # "details"

C6_Freshness ==
    /\ \A p \in Procs : FreshnessOf(h[p])
    /\ FreshnessOf(resp)

\* A quick view found the raw entry at the age of exactly 1800 s and is
\* fetching.
C6_Witness ==
    \E p \in Procs : h[p].op = "top3" /\ h[p].rawAge = 1800 /\ h[p].branch = "fetched"

\* Other points of C6 that are reached.
C6_FreshAt1799 == resp.op = "top3" /\ resp.rawAge = 1799 /\ resp.branch = "cached"
C6_StaleAt1801 == \E p \in Procs : h[p].op = "top3" /\ h[p].rawAge = 1801
C6_DetailsFreshAt1799 == resp.op = "more" /\ resp.detAge = 1799 /\ resp.branch = "details"
C6_DetailsStaleAt1800 == resp.op = "more" /\ resp.detAge = 1800 /\ resp.branch # "details"

\* The ingestor call has returned the list it built (no degraded return).
Returned == ing.pc = "returned" /\ ing.err = ""

\* C7: the returned list is ordered by publishedAt, taken as a point in
\* time, non-increasing, and items with equal publishedAt keep the order
\* in which they were encountered in the feed.
C7_SortedByInstant ==
    Returned =>
        \A i, j \in 1..Len(ing.result) :
            i < j =>
                /\ IsoInstant(ing.result[i].published) >= IsoInstant(ing.result[j].published)
                /\ IsoInstant(ing.result[i].published) = IsoInstant(ing.result[j].published)
                       => ing.result[i].link < ing.result[j].link

\* The returned list holds an item made from candidate i whose publishedAt
\* is a reading of the clock taken during the call, or (the item having
\* been dropped as a duplicate) one of the same title with such a date.
KeptAsNow(i) ==
    \E j \in 1..Len(ing.result) :
        /\ ing.result[j].title = ing.feed[i].title
        /\ IsoInstant(ing.result[j].published) >= ing.start
        /\ IsoInstant(ing.result[j].published) <= ing.clock

\* The candidates examined whose date is missing or unparsable and that
\* pass the keyword filter.
Undated ==
    { i \in 1..ing.examined :
        /\ ing.feed[i].pubDate.kind \in {"absent", "empty", "unparsable"}
        /\ ing.query_lower # "" => ing.query_lower \in ing.feed[i].words }

\* C8: every item returned has publishedAt >= cutoff = start - daysBack
\* days, no candidate strictly earlier than the cutoff is returned, and a
\* candidate whose date is missing or unparsable is kept with publishedAt
\* set to the current time.
C8_RecencyAndSubstitution ==
    ing.pc = "returned" =>
        /\ \A j \in 1..Len(ing.result) :
              IsoInstant(ing.result[j].published) >= ing.start - ing.days_back * DAY
        /\ \A i \in 1..ing.examined :
              (ing.feed[i].pubDate.kind = "aware"
                  /\ Instant(ing.feed[i].pubDate) < ing.start - ing.days_back * DAY)
              => \A j \in 1..Len(ing.result) : ing.result[j].link # i
        /\ \A i \in Undated : KeptAsNow(i)

\* The (title, publishedAt) pair of an item.
Pair(x) == <<x.title, x.published>>

\* C9: no two items returned have the same (title, publishedAt) pair; of
\* the candidates that pass the filters, one is returned iff no earlier one
\* has the same pair.
C9_Dedup ==
    Returned =>
        /\ \A i, j \in 1..Len(ing.result) :
              i # j => Pair(ing.result[i]) # Pair(ing.result[j])
        /\ \A j \in 1..Len(ing.passed) :
              (\E x \in 1..Len(ing.result) : ing.result[x] = ing.passed[j])
              <=> ~ \E i \in 1..(j - 1) : Pair(ing.passed[i]) = Pair(ing.passed[j])

\* A call has returned after three candidates passed the filters, the
\* first two with the same pair and the third with the same title and
\* another date: the first and the third are returned, the second is not.
C9_Witness ==
    /\ Returned
    /\ Len(ing.passed) = 3
    /\ Pair(ing.passed[1]) = Pair(ing.passed[2])
    /\ ing.passed[1].title = ing.passed[3].title
    /\ Len(ing.result) = 2
    /\ \A x \in 1..2 : ing.result[x].link # ing.passed[2].link

\* C10: at most max_items items are collected and returned, at most
\* 2 * max_items candidates are examined, and no candidate is examined once
\* max_items items have survived.
C10_Caps ==
    ing.max_items >= 1 =>
        /\ Len(ing.all_headlines) <= ing.max_items
        /\ Len(ing.result) <= ing.max_items
        /\ ing.examined <= 2 * ing.max_items
        /\ ing.pc = "loop" => Len(ing.all_headlines) < ing.max_items
        /\ Len(ing.all_headlines) = ing.max_items
              => ing.all_headlines[ing.max_items].link = ing.examined

\* A call over a feed of more than 2 * max_items items has returned
\* max_items items, having stopped with candidates left unexamined.
C10_Witness ==
    /\ Returned
    /\ Len(ing.feed) > 2 * ing.max_items
    /\ Len(ing.result) = ing.max_items
    /\ ing.examined < Len(ing.items)

\* A call over a feed of more than 2 * max_items items has examined
\* 2 * max_items of them and returned fewer than max_items.
C10_CutAtTwice ==
    /\ Returned
    /\ Len(ing.feed) > 2 * ing.max_items
    /\ ing.examined = 2 * ing.max_items
    /\ Len(ing.result) < ing.max_items


\* C11: a fetch whose scope is not in the function's registry fails with
\* ValueError (UnknownScopeError) and issues no HTTP GET, for
\* fetch_tribune_news and fetch_news_by_category alike; a fetch whose scope
\* is in the registry does not fail so.
C11_UnknownScope ==
    ing.pc # "off" =>
        IF ing.region \in Registry(ing.fn)
        THEN ing.err # "ValueError"
        ELSE ing.pc = "raised" /\ ing.err = "ValueError" /\ ing.gets = 0

\* fetch_news_by_category has been called with a scope that is a region,
\* not a category, and has raised without a GET.
C11_Witness ==
    /\ ing.pc = "raised"
    /\ ing.fn = "fetch_news_by_category"
    /\ ing.region \in rss_feeds
    /\ ing.gets = 0

\* fetch_tribune_news has raised for an unknown region.
C11_RegionRaised ==
    ing.pc = "raised" /\ ing.fn = "fetch_tribune_news" /\ ing.region \notin rss_feeds

\* C12: a fetch for a known scope never raises, and a failure of the GET
\* or of the XML parse or an error while an entry is processed makes it
\* return the empty list.
C12_NeverRaises ==
    (ing.pc # "off" /\ ing.region \in Registry(ing.fn)) =>
        /\ ing.pc # "raised"
        /\ (ing.pc = "returned" /\ ing.err # "") => ing.result = <<>>

\* A fetch has returned the empty list because processing its second entry
\* raised, after the first entry had been collected.
C12_Witness ==
    /\ ing.pc = "returned"
    /\ ing.err \in {"AttributeError", "TypeError"}
    /\ ing.examined = 2
    /\ Len(ing.all_headlines) = 1
    /\ ing.result = <<>>

\* A fetch has returned the empty list after a failed GET.
C12_GetFailed ==
    ing.pc = "returned" /\ ing.err \in GetErrors /\ ing.gets = 1 /\ ing.result = <<>>


\* C13: a quick view that fetched and got the empty list fails with the
\* 404 NoDataError, not with the internal error, and has stored no raw
\* entry.
C13_NoDataError ==
    (resp.op = "top3" /\ resp.pc = "done" /\ resp.fetched /\ resp.cause = "no_data")
    => /\ resp.status = HTTP_NOT_FOUND
       /\ resp.status # HTTP_ERROR
       /\ ~ resp.stored

\* C14: a successful quick view returns the titles of the first three
\* items (all of them if there are fewer) of the raw list cached for the
\* key, in list order, and total_available is the length of that list,
\* which is at most 10.
C14_FirstThree ==
    (resp.op = "top3" /\ resp.pc = "done" /\ resp.status = HTTP_OK) =>
        /\ resp.key \in DOMAIN raw_cache
        /\ LET raw == raw_cache[resp.key].items
               n   == IF Len(raw) < 3 THEN Len(raw) ELSE 3
           IN  /\ resp.body = [i \in 1..n |-> raw[i].title]
               /\ resp.total = Len(raw)
               /\ resp.total <= 10

\* A quick view has answered from a cached list of ten items with its
\* first three titles.
C14_Witness ==
    /\ resp.op = "top3" /\ resp.pc = "done" /\ resp.status = HTTP_OK
    /\ resp.branch = "cached"
    /\ resp.total = 10
    /\ resp.body = <<"n1", "n2", "n3">>

\* A quick view has fetched a list of two items and answered with both titles.
C14_ShortList ==
    /\ resp.op = "top3" /\ resp.pc = "done" /\ resp.status = HTTP_OK
    /\ resp.branch = "fetched"
    /\ resp.body = <<"n1", "n2">>


\* C15: in every state, a details entry present for a key was computed
\* from the raw list cached for the key at that moment, and no enrichment
\* run writes details computed from a raw list whose entry has been
\* invalidated.
C15_DetailsFromCurrentRaw ==
    /\ \A k \in DOMAIN details_cache :
          /\ k \in DOMAIN raw_cache
          /\ Len(details_cache[k].items) = Len(raw_cache[k].items)
          /\ \A i \in 1..Len(details_cache[k].items) :
                details_cache[k].items[i].title = raw_cache[k].items[i].title
    /\ last.wrote => ~ last.inval

\* An enrichment run has just written details computed from a raw list
\* whose entry a quick view had deleted as stale meanwhile; the key has a
\* details entry and no raw entry.
C15_StaleWrite ==
    /\ last.wrote
    /\ last.inval
    /\ last.key \in DOMAIN details_cache
    /\ last.key \notin DOMAIN raw_cache

\* The fetches in flight for key k: quick views awaiting fetch_top_items
\* and enrichment runs awaiting it.
FetchesInFlight(k) ==
    Cardinality({ p \in Procs : h[p].op = "top3" /\ h[p].pc = "fetch" /\ h[p].key = k })
    + Cardinality({ r \in Runs : run[r].pc = "fetch" /\ run[r].key = k })

\* C16: for any key, at most one upstream fetch is in flight at any time.
C16_SingleFlightFetch == \A k \in Keys : FetchesInFlight(k) <= 1

\* C17: for any key, at most one summarizer fan-out is in flight at any
\* time.
C17_SingleFlightEnrich ==
    \A k \in Keys : Cardinality({ r \in Runs : run[r].pc = "gather" /\ run[r].key = k }) <= 1


\* C18: whatever the order in which the summarizer calls complete, the
\* details list written has one record per raw item, and record j carries
\* the title, link and image of raw item j and the outcome of the call made
\* for item j: the summarizer's answer to item j's content, or item j's own
\* content when that call failed.
C18_RawOrder ==
    last.wrote =>
        LET d   == details_cache[last.key].items
            raw == last.raw_items
        IN  /\ Len(d) = Len(raw)
            /\ \A j \in 1..Len(raw) :
                  /\ d[j].title = raw[j].title
                  /\ d[j].link = raw[j].link
                  /\ d[j].img = raw[j].img
                  /\ d[j].brief_summary.id =
                        (IF raw[j].full_content.len > 0 THEN raw[j].full_content.id
                         ELSE raw[j].summary.id)
                  /\ d[j].brief_summary.by = (IF last.out[j].st = "ok" THEN "llm" ELSE "feed")

\* A run over three items has written its details, its calls having
\* completed in the reverse of the list order, the second one failing.
C18_Witness ==
    /\ last.wrote
    /\ Len(last.raw_items) = 3
    /\ last.out[1].rank = 3
    /\ last.out[2].rank = 2
    /\ last.out[3].rank = 1
    /\ last.out[2].st = "fail"
    /\ last.out[1].st = "ok"

\* C19: a run writes its details entry only when every summarizer call
\* has completed, with a success or a failure; every details entry, and
\* every details list a detail view returns, is a whole list: one record
\* per raw item, each with the summary of a completed call.
C19_FanInBarrier ==
    /\ last.wrote =>
          \A i \in 1..Len(last.out) :
              last.out[i].st \in {"ok", "fail"} /\ last.out[i].rank >= 1
    /\ \A k \in DOMAIN details_cache :
          /\ k \in DOMAIN raw_cache
          /\ Len(details_cache[k].items) = Len(raw_cache[k].items)
          /\ \A i \in 1..Len(details_cache[k].items) :
                details_cache[k].items[i].brief_summary.id # ""
    /\ (resp.op = "more" /\ resp.status = HTTP_OK) =>
          Len(resp.body) = Len(raw_cache[resp.key].items)

\* A run has written its details after its first call to complete had
\* failed and the two calls completing after it had succeeded.
C19_Witness ==
    /\ last.wrote
    /\ Len(last.out) = 3
    /\ \E i \in 1..3 :
          /\ last.out[i].st = "fail" /\ last.out[i].rank = 1
          /\ \A j \in 1..3 : j # i => last.out[j].st = "ok" /\ last.out[j].rank > 1

\* A detail view has returned the whole details list of three records.
C19_ReaderSeesWhole ==
    resp.op = "more" /\ resp.status = HTTP_OK /\ Len(resp.body) = 3


\* C20: every write to raw_cache for a key, by a quick view or by an
\* enrichment run, happens while the key has no raw entry: a stale entry
\* and its details entry are removed before the fetch that refreshes it.
C20_DeleteThenInsert ==
    /\ \A r \in Runs : ~ run[r].blind
    /\ ~ last.blind
    /\ ~ resp.blind

\* A background enrichment run found the raw entry stale, fetched, and
\* stored the new list over the entry it had left in place.
C20_EnrichOverwrites ==
    \E r \in Tasks : run[r].blind /\ run[r].pc = "gather" /\ run[r].fetched

\* A quick view found the raw entry stale, deleted it and the details
\* entry, and stored the fetched list while the key had no raw entry.
C20_QuickViewDeletes ==
    /\ resp.op = "top3" /\ resp.stored /\ ~ resp.blind
    /\ resp.rawAge >= CACHE_TTL

-----------------------------------------------------------------------------
\* C21: a fetch for a known scope that has issued its GET and returned
\* has performed the one-second delay, whether it returns the collected
\* list or the empty list of a failure.
C21_PoliteDelay ==
    (ing.pc = "returned" /\ ing.gets >= 1 /\ ing.region \in Registry(ing.fn)) => ing.slept

\* A fetch whose GET failed has returned the empty list without the delay.
C21_NoDelayAfterFailedGet ==
    ing.pc = "returned" /\ ing.gets = 1 /\ ing.err \in GetErrors /\ ~ ing.slept

\* A fetch whose loop ran to its end has returned after the delay.
C21_DelayOnSuccess ==
    ing.pc = "returned" /\ ing.gets = 1 /\ ing.err = "" /\ ing.slept /\ ing.examined >= 1

-----------------------------------------------------------------------------
\* A step of a category_news call: of its handler, or of the fetch in its
\* worker thread.
CategoryStep ==
    \/ \E p \in Procs : h'[p] # h[p] /\ "category" \in {h[p].op, h'[p].op}
    \/ ing' # ing

\* C22: no step of a category_news call changes raw_cache or
\* details_cache or creates, advances or ends an enrichment run, and its
\* answer is built from the list the Ingestor returned alone.
C22_BypassesCache ==
    [][CategoryStep =>
          /\ UNCHANGED <<raw_cache, details_cache, run>>
          /\ \A p \in Procs :
                (h[p].op = "category" /\ h'[p].op # "category") =>
                    resp' = CategoryNewsResponse(h[p], ing)]_vars

\* A category call has answered with a non-empty list while the key of a
\* quick view holds a raw and a details entry.
C22_Witness ==
    /\ resp.op = "category"
    /\ resp.status = HTTP_OK
    /\ resp.body # <<>>
    /\ \E q \in Requests : KeyOf(q) \in DOMAIN raw_cache /\ KeyOf(q) \in DOMAIN details_cache

\* A category call has answered that nothing was found.
C22_NothingFound ==
    resp.op = "category" /\ resp.cause = "no_data" /\ resp.status = HTTP_ERROR

-----------------------------------------------------------------------------
\* Run r has just returned having stored the details entry of its key.
EndedWithDetails(r) ==
    /\ run[r].pc = "free"
    /\ last.pc = "done"
    /\ last.wrote
    /\ last.key \in DOMAIN details_cache
    /\ Len(details_cache[last.key].items) = Len(last.raw_items)

\* C23: when the awaited fetch returns and every summarizer call completes,
\* every enrichment run that was started comes to its end, and a run that
\* got a non-empty raw list ends having written the details entry of its
\* key, whatever the summarizer calls gave.
C23_Terminates ==
    \A r \in Runs :
        /\ (run[r].pc # "free") ~> (run[r].pc = "free")
        /\ (run[r].pc = "gather") ~> EndedWithDetails(r)

\* A run over two items has ended with every summarizer call failed and
\* has written two detail records carrying the items' own text.
C23_Witness ==
    /\ last.pc = "done"
    /\ last.wrote
    /\ Len(last.out) = 2
    /\ \A i \in 1..2 : last.out[i].st = "fail"
    /\ last.key \in DOMAIN details_cache
    /\ \A i \in 1..2 :
          details_cache[last.key].items[i].brief_summary = FallbackSummary(last.raw_items[i])

\* A run that fetched the empty list has ended with nothing written.
C23_EmptyListEnds ==
    last.pc = "done" /\ last.fetched /\ last.raw_items = <<>> /\ ~ last.wrote

-----------------------------------------------------------------------------
\* C24: a detail view that answers with a details list answers from a
\* details entry younger than the TTL at the time of the answer.
C24_FreshDetailsOnly ==
    (resp.op = "more" /\ resp.pc = "done" /\ resp.status = HTTP_OK) =>
        /\ resp.key \in DOMAIN details_cache
        /\ now - details_cache[resp.key].ts < CACHE_TTL

\* A detail view has answered from its first branch with an entry younger
\* than the TTL.
C24_FreshReturned ==
    /\ resp.op = "more"
    /\ resp.status = HTTP_OK
    /\ resp.branch = "details"
    /\ now - details_cache[resp.key].ts = CACHE_TTL - 1

\* A detail view that awaited generate_top_10_details has answered with
\* the details entry that was already stale when the call began.
C24_StaleReturned ==
    /\ resp.op = "more"
    /\ resp.status = HTTP_OK
    /\ resp.branch = "generate"
    /\ resp.detAge >= CACHE_TTL
    /\ resp.body = details_cache[resp.key].items
    /\ now - details_cache[resp.key].ts >= CACHE_TTL

====
